---------------------------- MODULE Spec2Model ----------------------------
(***************************************************************************)
(* Model of components/hal/esp32s3/include/hal/usb_wrap_ll.h: the          *)
(* low-level register operations of the ESP32-S3 USB Wrap peripheral.      *)
(*                                                                         *)
(* The state is the contents of the three register banks the header        *)
(* programs (hw = the usb_wrap_dev_t the caller passes, RTCCNTL, SYSTEM)   *)
(* and, per execution context, the call in progress and its position.      *)
(* A register word is a record of its bitfield members; "rsvd" stands for  *)
(* the bits of the word the header never names.                            *)
(*                                                                         *)
(* Each C function is the sequence of its statements (<function>_body,     *)
(* every statement tagged with its source line); a context executes them   *)
(* one step at a time, so the states between two statements of a function  *)
(* are states of the model.  A write to a volatile bitfield member is a    *)
(* load of the whole register word followed by a store of the word with    *)
(* that member replaced: two steps, between which other contexts may run.  *)
(* The member assignments to the local of set_signals (lines 211-216)      *)
(* touch no register and are one step.                                     *)
(*                                                                         *)
(* A context is one activation: it makes one call.  The specifications     *)
(* differ in who calls what and when:                                      *)
(*   Spec           one call of any function, any arguments, from any      *)
(*                  prior register contents                                *)
(*   SpecSeq        serialized sequences of calls of all functions, from   *)
(*                  power-on contents                                      *)
(*   SpecRoundTrip  serialized: an override enabled, then disabled         *)
(*   SpecTestRace   the test-mode functions called concurrently            *)
(*   SpecRccRace    the clock and reset functions called concurrently      *)
(***************************************************************************)
EXTENDS Integers, Sequences, FiniteSets, TLC

VARIABLES
    hw,        \* usb_wrap_dev_t: [otg_conf, test_conf], each a record of bitfields
    RTCCNTL,   \* [usb_conf]
    SYSTEM,    \* [perip_clk_en0, perip_rst_en0]
    call,      \* call[c]: the call context c is executing or last returned from
    pc,        \* pc[c]: index of the next statement of call[c]; 0 = not in a call
    phase,     \* pc[c] at a bitfield write: "load" or "store"
    tmp,       \* tmp[c]: the register word loaded by the bitfield write in progress
    local,     \* local[c]: the C local `test_conf' of set_signals
    ret,       \* ret[c]: value returned by the last call of c
    wlog,      \* wlog[c]: the register stores made so far by call[c], in order
    pre,       \* pre[c]: the register banks when call[c] began
    last,      \* the call started most recently
    prev,      \* the call started before `last'
    overlap,   \* some call began while another context was inside a call
    nested     \* nested[c]: the contexts d such that c's call began inside the
               \* read..write-back window of d's set_signals and d had not
               \* written back when c returned (or has not yet, c still running)

vars == <<hw, RTCCNTL, SYSTEM, call, pc, phase, tmp, local, ret, wlog, pre,
          last, prev, overlap, nested>>

(***************************** bounds *************************************)
MaxStep == 7       \* vrefh_step, vrefl_step range over 0..MaxStep
MaxPattern == 3    \* initial register contents are drawn from patterns 0..MaxPattern
NCtx == 2          \* execution contexts; each makes one call

Ctx == 1..NCtx

(************************** register layout *******************************)
\* Members of hw->otg_conf this header names; "rsvd" stands for the rest of the word.
OtgFields ==
    <<"srp_sessend_override", "srp_sessend_value", "phy_sel",
      "exchg_pins_override", "exchg_pins", "vrefh", "vrefl", "vref_override",
      "pad_pull_override", "dp_pullup", "dp_pulldown", "dm_pullup",
      "dm_pulldown", "pullup_value", "pad_enable", "phy_tx_edge_sel", "rsvd">>

TestFields ==
    <<"test_enable", "test_usb_wrap_oe", "test_tx_dp", "test_tx_dm",
      "test_rx_rcv", "test_rx_dp", "test_rx_dm", "rsvd">>

UsbConfFields == <<"sw_hw_usb_phy_sel", "sw_usb_phy_sel", "rsvd">>

ClkFields == <<"usb_clk_en", "rsvd">>

RstFields == <<"usb_rst", "rsvd">>

\* Width in bits of a bitfield member.
Width(f) == IF f \in {"vrefh", "vrefl"} THEN 2 ELSE 1

\* C conversion of a value to an unsigned bitfield of Width(f) bits.
Trunc(f, v) == v % (2 ^ Width(f))

\* C conversion bool -> integer.
B2I(b) == IF b THEN 1 ELSE 0

\* reg.f = v for a bitfield member f of the register word reg.
WriteField(reg, f, v) == [reg EXCEPT ![f] = Trunc(f, v)]

(************************ initial register contents ***********************)
PatVal(p, i, f) ==
    CASE p = 0 -> 0
      [] p = 1 -> (2 ^ Width(f)) - 1
      [] OTHER -> (((i - 1) \div (p - 1)) + p) % (2 ^ Width(f))

Sample(fields, p) ==
    [f \in {fields[i] : i \in 1..Len(fields)} |->
        PatVal(p, CHOOSE i \in 1..Len(fields) : fields[i] = f, f)]

(***************************** statements *********************************)
\* bank.reg.field = val;   (a volatile bitfield write: load word, store word)
BF(line, bank, reg, field, val) ==
    [kind |-> "bf", line |-> line, bank |-> bank, reg |-> reg,
     field |-> field, val |-> val]

\* test_conf.val = bank->reg.val;   (load of the whole word into the local)
LDVAL(line, bank, reg) ==
    [kind |-> "ldval", line |-> line, bank |-> bank, reg |-> reg]

\* test_conf.f = v; ... for each <<f, v>> of sets, in order (the local only)
LSET(line, sets) == [kind |-> "lset", line |-> line, sets |-> sets]

\* bank->reg.val = test_conf.val;   (store of the whole word from the local)
STVAL(line, bank, reg) ==
    [kind |-> "stval", line |-> line, bank |-> bank, reg |-> reg]

\* return bank->reg.field;
RET(line, bank, reg, field) ==
    [kind |-> "ret", line |-> line, bank |-> bank, reg |-> reg, field |-> field]

(************************ the functions of the header: their statements*****************)
usb_wrap_ll_phy_enable_srp_sessend_override_body(sessend) ==
    << BF(30, "hw", "otg_conf", "srp_sessend_value", B2I(sessend)),
       BF(31, "hw", "otg_conf", "srp_sessend_override", 1) >>

usb_wrap_ll_phy_disable_srp_sessend_override_body ==
    << BF(41, "hw", "otg_conf", "srp_sessend_override", 0) >>

\* Faulty variant: the RTC mux bit written without the negation.
phy_enable_external_not_negated(enable) ==
    << BF(52, "hw", "otg_conf", "phy_sel", B2I(enable)),
       BF(54, "RTCCNTL", "usb_conf", "sw_hw_usb_phy_sel", 1),
       BF(60, "RTCCNTL", "usb_conf", "sw_usb_phy_sel", B2I(enable)) >>

usb_wrap_ll_phy_enable_external_body(enable) ==
    << BF(52, "hw", "otg_conf", "phy_sel", B2I(enable)),
       BF(54, "RTCCNTL", "usb_conf", "sw_hw_usb_phy_sel", 1),
       BF(60, "RTCCNTL", "usb_conf", "sw_usb_phy_sel", B2I(~enable)) >>

\* Faulty variant: the enable path asserts the override before the value.
phy_enable_pin_exchg_override_first(enable) ==
    IF enable
    THEN << BF(72, "hw", "otg_conf", "exchg_pins_override", 1),
            BF(73, "hw", "otg_conf", "exchg_pins", 1) >>
    ELSE << BF(75, "hw", "otg_conf", "exchg_pins_override", 0),
            BF(76, "hw", "otg_conf", "exchg_pins", 0) >>

\* Faulty variant: the disable path clears the value before the override.
phy_enable_pin_exchg_value_first(enable) ==
    IF enable
    THEN << BF(72, "hw", "otg_conf", "exchg_pins", 1),
            BF(73, "hw", "otg_conf", "exchg_pins_override", 1) >>
    ELSE << BF(75, "hw", "otg_conf", "exchg_pins", 0),
            BF(76, "hw", "otg_conf", "exchg_pins_override", 0) >>

usb_wrap_ll_phy_enable_pin_exchg_body(enable) ==
    IF enable
    THEN << BF(72, "hw", "otg_conf", "exchg_pins", 1),
            BF(73, "hw", "otg_conf", "exchg_pins_override", 1) >>
    ELSE << BF(75, "hw", "otg_conf", "exchg_pins_override", 0),
            BF(76, "hw", "otg_conf", "exchg_pins", 0) >>

\* Faulty variant: the two thresholds stored to each other's member.
phy_enable_vref_override_swapped(vrefh_step, vrefl_step) ==
    << BF(89, "hw", "otg_conf", "vrefh", vrefl_step),
       BF(90, "hw", "otg_conf", "vrefl", vrefh_step),
       BF(91, "hw", "otg_conf", "vref_override", 1) >>

usb_wrap_ll_phy_enable_vref_override_body(vrefh_step, vrefl_step) ==
    << BF(89, "hw", "otg_conf", "vrefh", vrefh_step),
       BF(90, "hw", "otg_conf", "vrefl", vrefl_step),
       BF(91, "hw", "otg_conf", "vref_override", 1) >>

\* Faulty variant: the disable also clears the thresholds.
phy_disable_vref_override_clearing ==
    << BF(101, "hw", "otg_conf", "vrefh", 0),
       BF(101, "hw", "otg_conf", "vrefl", 0),
       BF(101, "hw", "otg_conf", "vref_override", 0) >>

usb_wrap_ll_phy_disable_vref_override_body ==
    << BF(101, "hw", "otg_conf", "vref_override", 0) >>

usb_wrap_ll_phy_enable_pull_override_body(dp_pu, dm_pu, dp_pd, dm_pd) ==
    << BF(115, "hw", "otg_conf", "dp_pullup", B2I(dp_pu)),
       BF(116, "hw", "otg_conf", "dp_pulldown", B2I(dp_pd)),
       BF(117, "hw", "otg_conf", "dm_pullup", B2I(dm_pu)),
       BF(118, "hw", "otg_conf", "dm_pulldown", B2I(dm_pd)),
       BF(119, "hw", "otg_conf", "pad_pull_override", 1) >>

usb_wrap_ll_phy_disable_pull_override_body ==
    << BF(129, "hw", "otg_conf", "pad_pull_override", 0) >>

usb_wrap_ll_phy_set_pullup_strength_body(strong) ==
    << BF(140, "hw", "otg_conf", "pullup_value", B2I(strong)) >>

usb_wrap_ll_phy_is_pad_enabled_body ==
    << RET(151, "hw", "otg_conf", "pad_enable") >>

usb_wrap_ll_phy_enable_pad_body(enable) ==
    << BF(162, "hw", "otg_conf", "pad_enable", B2I(enable)) >>

usb_wrap_ll_phy_set_tx_edge_body(clk_neg_edge) ==
    << BF(173, "hw", "otg_conf", "phy_tx_edge_sel", B2I(clk_neg_edge)) >>

usb_wrap_ll_phy_enable_test_mode_body(enable) ==
    << BF(186, "hw", "test_conf", "test_enable", B2I(enable)) >>

\* Faulty variant: rx_rcv and rx_dp stored to each other's member.
phy_test_mode_set_signals_rx_swapped(oen, tx_dp, tx_dm, rx_dp, rx_dm, rx_rcv) ==
    << LDVAL(209, "hw", "test_conf"),
       LSET(211, << <<"test_usb_wrap_oe", B2I(oen)>>,
                    <<"test_tx_dp", B2I(tx_dp)>>,
                    <<"test_tx_dm", B2I(tx_dm)>>,
                    <<"test_rx_rcv", B2I(rx_dp)>>,
                    <<"test_rx_dp", B2I(rx_rcv)>>,
                    <<"test_rx_dm", B2I(rx_dm)>> >>),
       STVAL(218, "hw", "test_conf") >>

\* Faulty variant: the six members written to the register one by one.
phy_test_mode_set_signals_fieldwise(oen, tx_dp, tx_dm, rx_dp, rx_dm, rx_rcv) ==
    << BF(211, "hw", "test_conf", "test_usb_wrap_oe", B2I(oen)),
       BF(212, "hw", "test_conf", "test_tx_dp", B2I(tx_dp)),
       BF(213, "hw", "test_conf", "test_tx_dm", B2I(tx_dm)),
       BF(214, "hw", "test_conf", "test_rx_rcv", B2I(rx_rcv)),
       BF(215, "hw", "test_conf", "test_rx_dp", B2I(rx_dp)),
       BF(216, "hw", "test_conf", "test_rx_dm", B2I(rx_dm)) >>

\* Faulty variant: the word is composed with test_enable cleared.
phy_test_mode_set_signals_clearing(oen, tx_dp, tx_dm, rx_dp, rx_dm, rx_rcv) ==
    << LDVAL(209, "hw", "test_conf"),
       LSET(211, << <<"test_enable", 0>>,
                    <<"test_usb_wrap_oe", B2I(oen)>>,
                    <<"test_tx_dp", B2I(tx_dp)>>,
                    <<"test_tx_dm", B2I(tx_dm)>>,
                    <<"test_rx_rcv", B2I(rx_rcv)>>,
                    <<"test_rx_dp", B2I(rx_dp)>>,
                    <<"test_rx_dm", B2I(rx_dm)>> >>),
       STVAL(218, "hw", "test_conf") >>

usb_wrap_ll_phy_test_mode_set_signals_body(oen, tx_dp, tx_dm, rx_dp, rx_dm, rx_rcv) ==
    << LDVAL(209, "hw", "test_conf"),
       LSET(211, << <<"test_usb_wrap_oe", B2I(oen)>>,
                    <<"test_tx_dp", B2I(tx_dp)>>,
                    <<"test_tx_dm", B2I(tx_dm)>>,
                    <<"test_rx_rcv", B2I(rx_rcv)>>,
                    <<"test_rx_dp", B2I(rx_dp)>>,
                    <<"test_rx_dm", B2I(rx_dm)>> >>),
       STVAL(218, "hw", "test_conf") >>

usb_wrap_ll_enable_bus_clock_body(clk_en) ==
    << BF(229, "SYSTEM", "perip_clk_en0", "usb_clk_en", B2I(clk_en)) >>

\* Faulty variant: the two stores in the other order.
reset_register_swapped ==
    << BF(237, "SYSTEM", "perip_rst_en0", "usb_rst", 0),
       BF(238, "SYSTEM", "perip_rst_en0", "usb_rst", 1) >>

\* Faulty variant: the reset is asserted and not deasserted.
reset_register_no_deassert ==
    << BF(237, "SYSTEM", "perip_rst_en0", "usb_rst", 1) >>

usb_wrap_ll_reset_register_body ==
    << BF(237, "SYSTEM", "perip_rst_en0", "usb_rst", 1),
       BF(238, "SYSTEM", "perip_rst_en0", "usb_rst", 0) >>

\* The statements of function fn called with the argument tuple a.
Body(fn, a) ==
    CASE fn = "usb_wrap_ll_phy_enable_srp_sessend_override" ->
            usb_wrap_ll_phy_enable_srp_sessend_override_body(a[1])
      [] fn = "usb_wrap_ll_phy_disable_srp_sessend_override" ->
            usb_wrap_ll_phy_disable_srp_sessend_override_body
      [] fn = "usb_wrap_ll_phy_enable_external" ->
            usb_wrap_ll_phy_enable_external_body(a[1])
      [] fn = "usb_wrap_ll_phy_enable_pin_exchg" ->
            usb_wrap_ll_phy_enable_pin_exchg_body(a[1])
      [] fn = "usb_wrap_ll_phy_enable_vref_override" ->
            usb_wrap_ll_phy_enable_vref_override_body(a[1], a[2])
      [] fn = "usb_wrap_ll_phy_disable_vref_override" ->
            usb_wrap_ll_phy_disable_vref_override_body
      [] fn = "usb_wrap_ll_phy_enable_pull_override" ->
            usb_wrap_ll_phy_enable_pull_override_body(a[1], a[2], a[3], a[4])
      [] fn = "usb_wrap_ll_phy_disable_pull_override" ->
            usb_wrap_ll_phy_disable_pull_override_body
      [] fn = "usb_wrap_ll_phy_set_pullup_strength" ->
            usb_wrap_ll_phy_set_pullup_strength_body(a[1])
      [] fn = "usb_wrap_ll_phy_is_pad_enabled" ->
            usb_wrap_ll_phy_is_pad_enabled_body
      [] fn = "usb_wrap_ll_phy_enable_pad" ->
            usb_wrap_ll_phy_enable_pad_body(a[1])
      [] fn = "usb_wrap_ll_phy_set_tx_edge" ->
            usb_wrap_ll_phy_set_tx_edge_body(a[1])
      [] fn = "usb_wrap_ll_phy_enable_test_mode" ->
            usb_wrap_ll_phy_enable_test_mode_body(a[1])
      [] fn = "usb_wrap_ll_phy_test_mode_set_signals" ->
            usb_wrap_ll_phy_test_mode_set_signals_body(a[1], a[2], a[3], a[4], a[5], a[6])
      [] fn = "usb_wrap_ll_enable_bus_clock" ->
            usb_wrap_ll_enable_bus_clock_body(a[1])
      [] fn = "usb_wrap_ll_reset_register" ->
            usb_wrap_ll_reset_register_body
      [] OTHER -> << >>

(***************************** the machine ********************************)
NoWord == [none |-> 0]

NoCall == [fn |-> "none", args |-> << >>, ctx |-> 0]

Banks == [hw |-> hw, RTCCNTL |-> RTCCNTL, SYSTEM |-> SYSTEM]

\* The current contents of register word bank.reg.
Word(bank, reg) == Banks[bank][reg]

\* bank.reg becomes the word w; the other words keep their contents.
Store(bank, reg, w) ==
    /\ hw' = IF bank = "hw" THEN [hw EXCEPT ![reg] = w] ELSE hw
    /\ RTCCNTL' = IF bank = "RTCCNTL" THEN [RTCCNTL EXCEPT ![reg] = w] ELSE RTCCNTL
    /\ SYSTEM' = IF bank = "SYSTEM" THEN [SYSTEM EXCEPT ![reg] = w] ELSE SYSTEM

Prog(c) == Body(call[c].fn, call[c].args)

Stmt(c) == Prog(c)[pc[c]]

\* c is between the load (line 209) and the write-back (line 218) of set_signals.
InWindow(c) ==
    /\ pc[c] # 0
    /\ call[c].fn = "usb_wrap_ll_phy_test_mode_set_signals"
    /\ Stmt(c).kind \in {"lset", "stval"}

\* The local word after the member assignments sets[1..n], applied in order.
RECURSIVE ApplySets(_, _, _)
ApplySets(w, sets, n) ==
    IF n = 0 THEN w
    ELSE WriteField(ApplySets(w, sets, n - 1), sets[n][1], sets[n][2])

\* The position after the statement at pc[c]: the next statement, or 0 on return.
Advance(c) ==
    pc' = [pc EXCEPT ![c] = IF pc[c] = Len(Prog(c)) THEN 0 ELSE pc[c] + 1]

\* Context c enters function fn with arguments args.  A context is one
\* activation: it makes one call.  Nothing in the header serializes callers,
\* so a call may begin while another context is inside one.
Enter(c, fn, args) ==
    /\ call' = [call EXCEPT ![c] = [fn |-> fn, args |-> args, ctx |-> c]]
    /\ pc' = [pc EXCEPT ![c] = 1]
    /\ pre' = [pre EXCEPT ![c] = Banks]
    /\ prev' = last
    /\ last' = [fn |-> fn, args |-> args, ctx |-> c]
    /\ overlap' = (overlap \/ \E d \in Ctx \ {c} : pc[d] # 0)
    /\ nested' = [nested EXCEPT ![c] = {d \in Ctx \ {c} : InWindow(d)}]
    /\ UNCHANGED <<hw, RTCCNTL, SYSTEM, phase, tmp, local, ret, wlog>>

\* First half of a bitfield write: load the register word.
StepLoad(c) ==
    /\ pc[c] # 0
    /\ Stmt(c).kind = "bf" /\ phase[c] = "load"
    /\ tmp' = [tmp EXCEPT ![c] = Word(Stmt(c).bank, Stmt(c).reg)]
    /\ phase' = [phase EXCEPT ![c] = "store"]
    /\ UNCHANGED <<hw, RTCCNTL, SYSTEM, call, pc, local, ret, wlog, pre,
                   last, prev, overlap, nested>>

\* Second half: store the loaded word with the member replaced.
StepStore(c) ==
    /\ pc[c] # 0
    /\ Stmt(c).kind = "bf" /\ phase[c] = "store"
    /\ LET s == Stmt(c) IN
        /\ Store(s.bank, s.reg, WriteField(tmp[c], s.field, s.val))
        /\ wlog' = [wlog EXCEPT ![c] = Append(@,
                [line |-> s.line, bank |-> s.bank, reg |-> s.reg,
                 field |-> s.field, val |-> Trunc(s.field, s.val)])]
    /\ tmp' = [tmp EXCEPT ![c] = NoWord]
    /\ phase' = [phase EXCEPT ![c] = "load"]
    /\ Advance(c)
    /\ UNCHANGED <<call, local, ret, pre, last, prev, overlap, nested>>

\* test_conf.val = hw->test_conf.val;
StepLdval(c) ==
    /\ pc[c] # 0
    /\ Stmt(c).kind = "ldval"
    /\ local' = [local EXCEPT ![c] = Word(Stmt(c).bank, Stmt(c).reg)]
    /\ Advance(c)
    /\ UNCHANGED <<hw, RTCCNTL, SYSTEM, call, phase, tmp, ret, wlog, pre,
                   last, prev, overlap, nested>>

\* The member assignments to the local (lines 211-216): no register access.
StepLset(c) ==
    /\ pc[c] # 0
    /\ Stmt(c).kind = "lset"
    /\ local' = [local EXCEPT ![c] =
                    ApplySets(@, Stmt(c).sets, Len(Stmt(c).sets))]
    /\ Advance(c)
    /\ UNCHANGED <<hw, RTCCNTL, SYSTEM, call, phase, tmp, ret, wlog, pre,
                   last, prev, overlap, nested>>

\* hw->test_conf.val = test_conf.val;
StepStval(c) ==
    /\ pc[c] # 0
    /\ Stmt(c).kind = "stval"
    /\ LET s == Stmt(c) IN
        /\ Store(s.bank, s.reg, local[c])
        /\ wlog' = [wlog EXCEPT ![c] = Append(@,
                [line |-> s.line, bank |-> s.bank, reg |-> s.reg,
                 field |-> "val", val |-> local[c]])]
    /\ nested' = [d \in Ctx |-> IF pc[d] # 0 THEN nested[d] \ {c} ELSE nested[d]]
    /\ Advance(c)
    /\ UNCHANGED <<call, phase, tmp, local, ret, pre, last, prev, overlap>>

\* return hw->otg_conf.pad_enable;   (converted to bool)
StepRet(c) ==
    /\ pc[c] # 0
    /\ Stmt(c).kind = "ret"
    /\ ret' = [ret EXCEPT ![c] =
                B2I(Word(Stmt(c).bank, Stmt(c).reg)[Stmt(c).field] # 0)]
    /\ Advance(c)
    /\ UNCHANGED <<hw, RTCCNTL, SYSTEM, call, phase, tmp, local, wlog, pre,
                   last, prev, overlap, nested>>

(***************** the operations: a context calls a function ************)
usb_wrap_ll_phy_enable_srp_sessend_override(c, sessend) ==
    /\ call[c] = NoCall
    /\ Enter(c, "usb_wrap_ll_phy_enable_srp_sessend_override", <<sessend>>)

usb_wrap_ll_phy_disable_srp_sessend_override(c) ==
    /\ call[c] = NoCall
    /\ Enter(c, "usb_wrap_ll_phy_disable_srp_sessend_override", << >>)

usb_wrap_ll_phy_enable_external(c, enable) ==
    /\ call[c] = NoCall
    /\ Enter(c, "usb_wrap_ll_phy_enable_external", <<enable>>)

usb_wrap_ll_phy_enable_pin_exchg(c, enable) ==
    /\ call[c] = NoCall
    /\ Enter(c, "usb_wrap_ll_phy_enable_pin_exchg", <<enable>>)

usb_wrap_ll_phy_enable_vref_override(c, vrefh_step, vrefl_step) ==
    /\ call[c] = NoCall
    /\ Enter(c, "usb_wrap_ll_phy_enable_vref_override", <<vrefh_step, vrefl_step>>)

usb_wrap_ll_phy_disable_vref_override(c) ==
    /\ call[c] = NoCall
    /\ Enter(c, "usb_wrap_ll_phy_disable_vref_override", << >>)

usb_wrap_ll_phy_enable_pull_override(c, dp_pu, dm_pu, dp_pd, dm_pd) ==
    /\ call[c] = NoCall
    /\ Enter(c, "usb_wrap_ll_phy_enable_pull_override", <<dp_pu, dm_pu, dp_pd, dm_pd>>)

usb_wrap_ll_phy_disable_pull_override(c) ==
    /\ call[c] = NoCall
    /\ Enter(c, "usb_wrap_ll_phy_disable_pull_override", << >>)

usb_wrap_ll_phy_set_pullup_strength(c, strong) ==
    /\ call[c] = NoCall
    /\ Enter(c, "usb_wrap_ll_phy_set_pullup_strength", <<strong>>)

usb_wrap_ll_phy_is_pad_enabled(c) ==
    /\ call[c] = NoCall
    /\ Enter(c, "usb_wrap_ll_phy_is_pad_enabled", << >>)

usb_wrap_ll_phy_enable_pad(c, enable) ==
    /\ call[c] = NoCall
    /\ Enter(c, "usb_wrap_ll_phy_enable_pad", <<enable>>)

usb_wrap_ll_phy_set_tx_edge(c, clk_neg_edge) ==
    /\ call[c] = NoCall
    /\ Enter(c, "usb_wrap_ll_phy_set_tx_edge", <<clk_neg_edge>>)

usb_wrap_ll_phy_enable_test_mode(c, enable) ==
    /\ call[c] = NoCall
    /\ Enter(c, "usb_wrap_ll_phy_enable_test_mode", <<enable>>)

usb_wrap_ll_phy_test_mode_set_signals(c, oen, tx_dp, tx_dm, rx_dp, rx_dm, rx_rcv) ==
    /\ call[c] = NoCall
    /\ Enter(c, "usb_wrap_ll_phy_test_mode_set_signals",
             <<oen, tx_dp, tx_dm, rx_dp, rx_dm, rx_rcv>>)

usb_wrap_ll_enable_bus_clock(c, clk_en) ==
    /\ call[c] = NoCall
    /\ Enter(c, "usb_wrap_ll_enable_bus_clock", <<clk_en>>)

usb_wrap_ll_reset_register(c) ==
    /\ call[c] = NoCall
    /\ Enter(c, "usb_wrap_ll_reset_register", << >>)

(************************** specifications ********************************)
Steps == 0..MaxStep

InitRegs(p) ==
    /\ hw = [otg_conf |-> Sample(OtgFields, p), test_conf |-> Sample(TestFields, p)]
    /\ RTCCNTL = [usb_conf |-> Sample(UsbConfFields, p)]
    /\ SYSTEM = [perip_clk_en0 |-> Sample(ClkFields, p),
                 perip_rst_en0 |-> Sample(RstFields, p)]

InitCtx ==
    /\ call = [c \in Ctx |-> NoCall]
    /\ pc = [c \in Ctx |-> 0]
    /\ phase = [c \in Ctx |-> "load"]
    /\ tmp = [c \in Ctx |-> NoWord]
    /\ local = [c \in Ctx |-> NoWord]
    /\ ret = [c \in Ctx |-> 0]
    /\ wlog = [c \in Ctx |-> << >>]
    /\ pre = [c \in Ctx |-> NoWord]
    /\ last = NoCall
    /\ prev = NoCall
    /\ overlap = FALSE
    /\ nested = [c \in Ctx |-> {}]

\* Spec: one call of any function, with any arguments, from any prior
\* register contents (the contract of each function).
Init ==
    /\ \E p \in 0..MaxPattern : InitRegs(p)
    /\ InitCtx

Next ==
    \/ \E b \in BOOLEAN : usb_wrap_ll_phy_enable_srp_sessend_override(1, b)
    \/ usb_wrap_ll_phy_disable_srp_sessend_override(1)
    \/ \E b \in BOOLEAN : usb_wrap_ll_phy_enable_external(1, b)
    \/ \E b \in BOOLEAN : usb_wrap_ll_phy_enable_pin_exchg(1, b)
    \/ \E h \in Steps, l \in Steps : usb_wrap_ll_phy_enable_vref_override(1, h, l)
    \/ usb_wrap_ll_phy_disable_vref_override(1)
    \/ \E a \in [1..4 -> BOOLEAN] :
            usb_wrap_ll_phy_enable_pull_override(1, a[1], a[2], a[3], a[4])
    \/ usb_wrap_ll_phy_disable_pull_override(1)
    \/ \E b \in BOOLEAN : usb_wrap_ll_phy_set_pullup_strength(1, b)
    \/ usb_wrap_ll_phy_is_pad_enabled(1)
    \/ \E b \in BOOLEAN : usb_wrap_ll_phy_enable_pad(1, b)
    \/ \E b \in BOOLEAN : usb_wrap_ll_phy_set_tx_edge(1, b)
    \/ \E b \in BOOLEAN : usb_wrap_ll_phy_enable_test_mode(1, b)
    \/ \E a \in [1..6 -> BOOLEAN] :
            usb_wrap_ll_phy_test_mode_set_signals(1, a[1], a[2], a[3], a[4], a[5], a[6])
    \/ \E b \in BOOLEAN : usb_wrap_ll_enable_bus_clock(1, b)
    \/ usb_wrap_ll_reset_register(1)
    \/ StepLoad(1)
    \/ StepStore(1)
    \/ StepLdval(1)
    \/ StepLset(1)
    \/ StepStval(1)
    \/ StepRet(1)

Spec == Init /\ [][Next]_vars

\* No context is inside a call.
Serialized == \A d \in Ctx : pc[d] = 0

\* Contexts are used in order (which context makes the n-th call is immaterial).
InOrder(c) == \A d \in Ctx : d < c => call[d] # NoCall

\* SpecSeq: serialized sequences of calls, one per context, each beginning
\* after the previous one returned, from power-on contents in which the
\* pin-exchange override is off.  Every function takes part; the functions
\* with many parameters take the argument tuples listed here.
InitSeq ==
    /\ \E p \in 0..MaxPattern :
        /\ hw = [otg_conf |-> [Sample(OtgFields, p) EXCEPT !.exchg_pins_override = 0],
                 test_conf |-> Sample(TestFields, p)]
        /\ RTCCNTL = [usb_conf |-> Sample(UsbConfFields, p)]
        /\ SYSTEM = [perip_clk_en0 |-> Sample(ClkFields, p),
                     perip_rst_en0 |-> Sample(RstFields, p)]
    /\ InitCtx

SeqGuard(c) == Serialized /\ InOrder(c)

NextSeq ==
    \/ \E c \in Ctx, b \in BOOLEAN :
            SeqGuard(c) /\ usb_wrap_ll_phy_enable_srp_sessend_override(c, b)
    \/ \E c \in Ctx : SeqGuard(c) /\ usb_wrap_ll_phy_disable_srp_sessend_override(c)
    \/ \E c \in Ctx, b \in BOOLEAN : SeqGuard(c) /\ usb_wrap_ll_phy_enable_external(c, b)
    \/ \E c \in Ctx, b \in BOOLEAN : SeqGuard(c) /\ usb_wrap_ll_phy_enable_pin_exchg(c, b)
    \/ \E c \in Ctx, h \in Steps :
            SeqGuard(c) /\ usb_wrap_ll_phy_enable_vref_override(c, h, MaxStep - h)
    \/ \E c \in Ctx : SeqGuard(c) /\ usb_wrap_ll_phy_disable_vref_override(c)
    \/ \E c \in Ctx, b \in BOOLEAN :
            SeqGuard(c) /\ usb_wrap_ll_phy_enable_pull_override(c, b, ~b, b, ~b)
    \/ \E c \in Ctx : SeqGuard(c) /\ usb_wrap_ll_phy_disable_pull_override(c)
    \/ \E c \in Ctx, b \in BOOLEAN :
            SeqGuard(c) /\ usb_wrap_ll_phy_set_pullup_strength(c, b)
    \/ \E c \in Ctx : SeqGuard(c) /\ usb_wrap_ll_phy_is_pad_enabled(c)
    \/ \E c \in Ctx, b \in BOOLEAN : SeqGuard(c) /\ usb_wrap_ll_phy_enable_pad(c, b)
    \/ \E c \in Ctx, b \in BOOLEAN : SeqGuard(c) /\ usb_wrap_ll_phy_set_tx_edge(c, b)
    \/ \E c \in Ctx, b \in BOOLEAN :
            SeqGuard(c) /\ usb_wrap_ll_phy_enable_test_mode(c, b)
    \/ \E c \in Ctx, b \in BOOLEAN :
            SeqGuard(c) /\ usb_wrap_ll_phy_test_mode_set_signals(c, b, ~b, b, ~b, b, ~b)
    \/ \E c \in Ctx, b \in BOOLEAN : SeqGuard(c) /\ usb_wrap_ll_enable_bus_clock(c, b)
    \/ \E c \in Ctx : SeqGuard(c) /\ usb_wrap_ll_reset_register(c)
    \/ \E c \in Ctx : StepLoad(c)
    \/ \E c \in Ctx : StepStore(c)
    \/ \E c \in Ctx : StepLdval(c)
    \/ \E c \in Ctx : StepLset(c)
    \/ \E c \in Ctx : StepStval(c)
    \/ \E c \in Ctx : StepRet(c)

SpecSeq == InitSeq /\ [][NextSeq]_vars

\* SpecRoundTrip: serialized; an override is enabled with any arguments and
\* the next call is the matching disable (then another override may be
\* enabled, while contexts remain).
EnableFns ==
    {"usb_wrap_ll_phy_enable_srp_sessend_override",
     "usb_wrap_ll_phy_enable_vref_override",
     "usb_wrap_ll_phy_enable_pull_override"}

\* The last call enabled an override that has not been disabled since.
Enabled(cl) ==
    \/ cl.fn \in EnableFns
    \/ cl.fn = "usb_wrap_ll_phy_enable_pin_exchg" /\ cl.args[1]

EnableGuard(c) == SeqGuard(c) /\ ~Enabled(last)

DisableGuard(c, fn) == SeqGuard(c) /\ last.fn = fn

NextRoundTrip ==
    \/ \E c \in Ctx, b \in BOOLEAN :
            EnableGuard(c) /\ usb_wrap_ll_phy_enable_srp_sessend_override(c, b)
    \/ \E c \in Ctx :
            /\ DisableGuard(c, "usb_wrap_ll_phy_enable_srp_sessend_override")
            /\ usb_wrap_ll_phy_disable_srp_sessend_override(c)
    \/ \E c \in Ctx : EnableGuard(c) /\ usb_wrap_ll_phy_enable_pin_exchg(c, TRUE)
    \/ \E c \in Ctx :
            /\ DisableGuard(c, "usb_wrap_ll_phy_enable_pin_exchg") /\ last.args[1]
            /\ usb_wrap_ll_phy_enable_pin_exchg(c, FALSE)
    \/ \E c \in Ctx, h \in Steps, l \in Steps :
            EnableGuard(c) /\ usb_wrap_ll_phy_enable_vref_override(c, h, l)
    \/ \E c \in Ctx :
            /\ DisableGuard(c, "usb_wrap_ll_phy_enable_vref_override")
            /\ usb_wrap_ll_phy_disable_vref_override(c)
    \/ \E c \in Ctx, a \in [1..4 -> BOOLEAN] :
            /\ EnableGuard(c)
            /\ usb_wrap_ll_phy_enable_pull_override(c, a[1], a[2], a[3], a[4])
    \/ \E c \in Ctx :
            /\ DisableGuard(c, "usb_wrap_ll_phy_enable_pull_override")
            /\ usb_wrap_ll_phy_disable_pull_override(c)
    \/ \E c \in Ctx : StepLoad(c)
    \/ \E c \in Ctx : StepStore(c)

SpecRoundTrip == Init /\ [][NextRoundTrip]_vars

\* SpecTestRace: the contexts call the two test-mode functions with no
\* serialization: any interleaving of their loads and stores.
NextTestRace ==
    \/ \E c \in Ctx, b \in BOOLEAN : usb_wrap_ll_phy_enable_test_mode(c, b)
    \/ \E c \in Ctx, b \in BOOLEAN :
            usb_wrap_ll_phy_test_mode_set_signals(c, b, ~b, b, ~b, b, ~b)
    \/ \E c \in Ctx : StepLoad(c)
    \/ \E c \in Ctx : StepStore(c)
    \/ \E c \in Ctx : StepLdval(c)
    \/ \E c \in Ctx : StepLset(c)
    \/ \E c \in Ctx : StepStval(c)

SpecTestRace == Init /\ [][NextTestRace]_vars

\* SpecRccRace: the contexts call the clock and reset functions with no
\* serialization.
NextRccRace ==
    \/ \E c \in Ctx, b \in BOOLEAN : usb_wrap_ll_enable_bus_clock(c, b)
    \/ \E c \in Ctx : usb_wrap_ll_reset_register(c)
    \/ \E c \in Ctx : StepLoad(c)
    \/ \E c \in Ctx : StepStore(c)

SpecRccRace == Init /\ [][NextRccRace]_vars

(******************************* claims ***********************************)
\* The stores call[c] has made, in order, as <<register, member, value>>.
Writes(c) ==
    [i \in 1..Len(wlog[c]) |-> <<wlog[c][i].reg, wlog[c][i].field, wlog[c][i].val>>]

IsPrefix(s, t) == Len(s) <= Len(t) /\ \A i \in 1..Len(s) : s[i] = t[i]

\* Context c has returned from a call of fn.
Returned(c, fn) == call[c].fn = fn /\ pc[c] = 0

\* Context c is inside, or has returned from, a call of fn.
Called(c, fn) == call[c].fn = fn

otg == hw.otg_conf

\* C1: usb_wrap_ll_reset_register makes exactly two register stores, both to
\* SYSTEM.perip_rst_en0.usb_rst, the values 1 then 0 (at every point of the
\* call the stores made are a prefix of these), and whatever usb_rst held
\* before, it is 0 when the call has returned.
C1_ResetPulse ==
    \A c \in Ctx :
        Called(c, "usb_wrap_ll_reset_register") =>
            /\ IsPrefix(Writes(c), << <<"perip_rst_en0", "usb_rst", 1>>,
                                     <<"perip_rst_en0", "usb_rst", 0>> >>)
            /\ \A i \in 1..Len(wlog[c]) : wlog[c][i].bank = "SYSTEM"
            /\ pc[c] = 0 =>
                /\ Len(wlog[c]) = 2
                /\ SYSTEM.perip_rst_en0.usb_rst = 0

C1_Witness ==
    \E c \in Ctx :
        /\ Returned(c, "usb_wrap_ll_reset_register")
        /\ pre[c].SYSTEM.perip_rst_en0.usb_rst = 1
        /\ Len(wlog[c]) = 2

\* C2: usb_wrap_ll_phy_enable_pin_exchg makes exactly two stores: with
\* enable, exchg_pins = 1 and then exchg_pins_override = 1; without,
\* exchg_pins_override = 0 and then exchg_pins = 0.
C2_PinExchgOrder ==
    \A c \in Ctx :
        Called(c, "usb_wrap_ll_phy_enable_pin_exchg") =>
            LET want == IF call[c].args[1]
                        THEN << <<"otg_conf", "exchg_pins", 1>>,
                                <<"otg_conf", "exchg_pins_override", 1>> >>
                        ELSE << <<"otg_conf", "exchg_pins_override", 0>>,
                                <<"otg_conf", "exchg_pins", 0>> >>
            IN  /\ IsPrefix(Writes(c), want)
                /\ \A i \in 1..Len(wlog[c]) : wlog[c][i].bank = "hw"
                /\ pc[c] = 0 => Writes(c) = want

C2_Witness ==
    \E c \in Ctx :
        /\ Returned(c, "usb_wrap_ll_phy_enable_pin_exchg")
        /\ ~call[c].args[1]
        /\ pre[c].hw.otg_conf.exchg_pins = 1
        /\ pre[c].hw.otg_conf.exchg_pins_override = 1
        /\ Len(wlog[c]) = 2

\* C5: after usb_wrap_ll_phy_enable_vref_override(hw, vrefh_step, vrefl_step)
\* has returned, otg_conf is its value before the call with vrefh =
\* vrefh_step mod 4, vrefl = vrefl_step mod 4 and vref_override = 1: every
\* other member is unchanged.
C5_VrefFrame ==
    \A c \in Ctx :
        Returned(c, "usb_wrap_ll_phy_enable_vref_override") =>
            otg = [pre[c].hw.otg_conf EXCEPT
                        !.vrefh = call[c].args[1] % 4,
                        !.vrefl = call[c].args[2] % 4,
                        !.vref_override = 1]

\* vrefh_step = 2, vrefl_step = 1 read back as set, from contents in which
\* both members and the override bit held something else.
C5_Witness ==
    \E c \in Ctx :
        /\ Returned(c, "usb_wrap_ll_phy_enable_vref_override")
        /\ call[c].args = <<2, 1>>
        /\ otg.vrefh = 2 /\ otg.vrefl = 1 /\ otg.vref_override = 1
        /\ pre[c].hw.otg_conf.vrefh # 2
        /\ pre[c].hw.otg_conf.vrefl # 1
        /\ pre[c].hw.otg_conf.vref_override = 0

\* The six test signals of a test_conf word, in parameter order
\* (oen, tx_dp, tx_dm, rx_dp, rx_dm, rx_rcv).
Signals(w) ==
    <<w.test_usb_wrap_oe, w.test_tx_dp, w.test_tx_dm, w.test_rx_dp,
      w.test_rx_dm, w.test_rx_rcv>>

ArgSignals(a) == [i \in 1..6 |-> IF a[i] THEN 1 ELSE 0]

\* C6: after usb_wrap_ll_phy_test_mode_set_signals has returned, each of the
\* six members holds its own parameter, and test_enable and the rest of the
\* word are as before the call.
C6_SignalsFrame ==
    \A c \in Ctx :
        Returned(c, "usb_wrap_ll_phy_test_mode_set_signals") =>
            LET a == ArgSignals(call[c].args) IN
            hw.test_conf = [pre[c].hw.test_conf EXCEPT
                                !.test_usb_wrap_oe = a[1],
                                !.test_tx_dp = a[2],
                                !.test_tx_dm = a[3],
                                !.test_rx_dp = a[4],
                                !.test_rx_dm = a[5],
                                !.test_rx_rcv = a[6]]

C6_Witness ==
    \E c \in Ctx :
        /\ Returned(c, "usb_wrap_ll_phy_test_mode_set_signals")
        /\ \A i \in 1..6 : call[c].args[i]
        /\ pre[c].hw.test_conf.rsvd = 1
        /\ pre[c].hw.test_conf.test_tx_dp = 0
        /\ hw.test_conf.rsvd = 1

\* C7: throughout a call of usb_wrap_ll_phy_test_mode_set_signals the
\* register holds either all six signals as before the call or all six as
\* passed, and the call stores to the register once (no store before the
\* write-back, exactly one after it).
C7_SignalsAtomic ==
    \A c \in Ctx :
        Called(c, "usb_wrap_ll_phy_test_mode_set_signals") =>
            /\ \/ Signals(hw.test_conf) = Signals(pre[c].hw.test_conf)
               \/ Signals(hw.test_conf) = ArgSignals(call[c].args)
            /\ Len(wlog[c]) = IF pc[c] = 0 THEN 1 ELSE 0

\* Just before the write-back: the local holds the new set, which differs
\* from the register's in three members or more.
C7_Witness ==
    \E c \in Ctx :
        /\ Called(c, "usb_wrap_ll_phy_test_mode_set_signals")
        /\ pc[c] # 0 /\ Stmt(c).kind = "stval"
        /\ Signals(hw.test_conf) = Signals(pre[c].hw.test_conf)
        /\ Cardinality({i \in 1..6 :
                Signals(local[c])[i] # Signals(hw.test_conf)[i]}) >= 3

\* C3: when usb_wrap_ll_phy_enable_external(hw, enable) has returned, from
\* any prior contents, phy_sel = enable, sw_usb_phy_sel = NOT enable and
\* sw_hw_usb_phy_sel = 1, and the call stored sw_hw_usb_phy_sel = 1 before
\* it stored sw_usb_phy_sel.
C3_ExternalPhy ==
    (last.fn = "usb_wrap_ll_phy_enable_external" /\ pc[last.ctx] = 0) =>
        LET c == last.ctx
            e == last.args[1]
        IN  /\ otg.phy_sel = (IF e THEN 1 ELSE 0)
            /\ RTCCNTL.usb_conf.sw_usb_phy_sel = (IF e THEN 0 ELSE 1)
            /\ RTCCNTL.usb_conf.sw_hw_usb_phy_sel = 1
            /\ \E i, j \in 1..Len(wlog[c]) :
                /\ i < j
                /\ Writes(c)[i] = <<"usb_conf", "sw_hw_usb_phy_sel", 1>>
                /\ wlog[c][j].field = "sw_usb_phy_sel"

\* enable_external(true) and then enable_external(false) have returned.
C3_Witness ==
    /\ prev.fn = "usb_wrap_ll_phy_enable_external" /\ prev.args[1]
    /\ last.fn = "usb_wrap_ll_phy_enable_external" /\ ~last.args[1]
    /\ pc[last.ctx] = 0
    /\ pre[last.ctx].hw.otg_conf.phy_sel = 1
    /\ otg.phy_sel = 0
    /\ RTCCNTL.usb_conf.sw_usb_phy_sel = 1
    /\ RTCCNTL.usb_conf.sw_hw_usb_phy_sel = 1

\* C9: from power-on contents with exchg_pins_override = 0, in every state
\* of every serialized sequence of calls, the states inside a call included,
\* exchg_pins_override = 1 implies exchg_pins = 1.
C9_OverrideImpliesValue == otg.exchg_pins_override = 1 => otg.exchg_pins = 1

\* Between the two stores of pin_exchg(false), after pin_exchg(true).
C9_Witness ==
    /\ prev.fn = "usb_wrap_ll_phy_enable_pin_exchg" /\ prev.args[1]
    /\ last.fn = "usb_wrap_ll_phy_enable_pin_exchg" /\ ~last.args[1]
    /\ pc[last.ctx] = 2
    /\ otg.exchg_pins_override = 0 /\ otg.exchg_pins = 1

\* C4: when an override has been enabled and the next call, its disable, has
\* returned, the override-active bit is 0 and the value members hold what
\* the enable wrote.
C4_RoundTrip ==
    (last.ctx \in Ctx /\ pc[last.ctx] = 0) =>
        /\ (/\ prev.fn = "usb_wrap_ll_phy_enable_pin_exchg" /\ prev.args[1]
            /\ last.fn = "usb_wrap_ll_phy_enable_pin_exchg" /\ ~last.args[1])
           => otg.exchg_pins_override = 0
        /\ (/\ prev.fn = "usb_wrap_ll_phy_enable_srp_sessend_override"
            /\ last.fn = "usb_wrap_ll_phy_disable_srp_sessend_override")
           => /\ otg.srp_sessend_override = 0
              /\ otg.srp_sessend_value = (IF prev.args[1] THEN 1 ELSE 0)
        /\ (/\ prev.fn = "usb_wrap_ll_phy_enable_vref_override"
            /\ last.fn = "usb_wrap_ll_phy_disable_vref_override")
           => /\ otg.vref_override = 0
              /\ otg.vrefh = prev.args[1] % 4
              /\ otg.vrefl = prev.args[2] % 4
        /\ (/\ prev.fn = "usb_wrap_ll_phy_enable_pull_override"
            /\ last.fn = "usb_wrap_ll_phy_disable_pull_override")
           => /\ otg.pad_pull_override = 0
              /\ otg.dp_pullup = (IF prev.args[1] THEN 1 ELSE 0)
              /\ otg.dm_pullup = (IF prev.args[2] THEN 1 ELSE 0)
              /\ otg.dp_pulldown = (IF prev.args[3] THEN 1 ELSE 0)
              /\ otg.dm_pulldown = (IF prev.args[4] THEN 1 ELSE 0)

\* The pull override enabled with values the register did not hold, then
\* disabled: the values are still there.
C4_Witness ==
    /\ prev.fn = "usb_wrap_ll_phy_enable_pull_override"
    /\ last.fn = "usb_wrap_ll_phy_disable_pull_override"
    /\ pc[last.ctx] = 0
    /\ prev.args = <<TRUE, FALSE, FALSE, TRUE>>
    /\ pre[prev.ctx].hw.otg_conf.dp_pullup = 0
    /\ pre[prev.ctx].hw.otg_conf.dm_pulldown = 0
    /\ otg.dp_pullup = 1 /\ otg.dm_pulldown = 1
    /\ otg.pad_pull_override = 0

\* C8: one context calls usb_wrap_ll_phy_enable_test_mode(hw, e), another
\* usb_wrap_ll_phy_test_mode_set_signals, nothing else runs, and both have
\* returned.  If the calls did not overlap (either order), test_enable = e.
\* If the enable call ran wholly between the read (line 209) and the
\* write-back (line 218) of set_signals, test_enable holds the value it had
\* before the two calls: the update is lost.
C8_LostUpdate ==
    \A c, d \in Ctx :
        (/\ c # d
         /\ Returned(c, "usb_wrap_ll_phy_enable_test_mode")
         /\ Returned(d, "usb_wrap_ll_phy_test_mode_set_signals")
         /\ \A x \in Ctx \ {c, d} : call[x] = NoCall)
        => /\ ~overlap =>
                hw.test_conf.test_enable = (IF call[c].args[1] THEN 1 ELSE 0)
           /\ d \in nested[c] =>
                hw.test_conf.test_enable = pre[d].hw.test_conf.test_enable

\* The lost update: test_enable is not e after both calls have returned.
C8_Witness ==
    \E c, d \in Ctx :
        /\ c # d
        /\ Returned(c, "usb_wrap_ll_phy_enable_test_mode")
        /\ Returned(d, "usb_wrap_ll_phy_test_mode_set_signals")
        /\ \A x \in Ctx \ {c, d} : call[x] = NoCall
        /\ d \in nested[c]
        /\ hw.test_conf.test_enable # (IF call[c].args[1] THEN 1 ELSE 0)
        /\ hw.test_conf.test_enable = pre[c].hw.test_conf.test_enable

\* C10: with any number of contexts inside usb_wrap_ll_reset_register at
\* once, every bitfield write a separate load and store, once a reset call
\* has returned and no reset call is in progress, usb_rst = 0.
C10_NeverLeftInReset ==
    (/\ \E c \in Ctx : Returned(c, "usb_wrap_ll_reset_register")
     /\ \A c \in Ctx : Called(c, "usb_wrap_ll_reset_register") => pc[c] = 0)
    => SYSTEM.perip_rst_en0.usb_rst = 0

\* Every context has called reset, the calls overlapped, all have returned.
C10_Witness ==
    /\ overlap
    /\ \A c \in Ctx : Returned(c, "usb_wrap_ll_reset_register")
    /\ \A c \in Ctx : pre[c].SYSTEM.perip_rst_en0.usb_rst = 1

====
